---- MODULE Spec2Model ----
(***************************************************************************)
(* Local Core Web Vitals measurement (scripts/pagespeed-local.js).         *)
(*                                                                         *)
(* One measurement session of LocalCWVMeasurement.measure(): the in-page   *)
(* collector callbacks, the navigation / settle / stabilization / finalize *)
(* phases, the metric derivation evaluated in the page at snapshot time    *)
(* and the grading function indicator().                                   *)
(*                                                                         *)
(* Times are integers counted in ticks of 1/TicksPerMs millisecond, so     *)
(* that Math.round() is a real conversion.  A JavaScript value that may be *)
(* null is a sequence: <<>> is null, <<v>> is the number v.                *)
(***************************************************************************)
EXTENDS Integers, Sequences, FiniteSets, TLC

\* ------------------------------------------------------------------------
\* Resolution and bounds of the model
\* ------------------------------------------------------------------------
TicksPerMs == 2
MaxTasks == 2
MaxCands == 2

Ms(n) == n * TicksPerMs

\* ------------------------------------------------------------------------
\* JavaScript values
\* ------------------------------------------------------------------------
NULL == <<>>
Num(v) == <<v>>
Val(o) == o[1]

\* truthiness of a number-or-null: null and 0 are falsy
Truthy(o) == o # NULL /\ Val(o) # 0

\* a || b
Or(a, b) == IF Truthy(a) THEN a ELSE b

\* Math.round of n/d (d > 0, n >= 0): nearest integer, halves go up
RoundDiv(n, d) == (2 * n + d) \div (2 * d)

\* Math.round of a time given in ticks, in whole milliseconds
MathRound(t) == RoundDiv(t, TicksPerMs)

\* ------------------------------------------------------------------------
\* Program constants
\* ------------------------------------------------------------------------
LongTaskThreshold == Ms(50)
quietWindow == Ms(5000)
TbtCap == Ms(10000)
maxWaitTime == 15000
checkInterval == 3000
maxAttempts == 3

\* Math.round(x) / 1000 and value * 1000: the numbers of a bundle are held in
\* thousandths of the JavaScript number, which keeps both conversions exact
SecDivisor == 1000
MsFactor == 1000
Fixed(n) == n * SecDivisor

\* THRESHOLDS, in thousandths
THRESHOLDS ==
  [ lcp  |-> [good |-> 2500,          poor |-> 4000],
    cls  |-> [good |-> 100,           poor |-> 250],
    fcp  |-> [good |-> 1800,          poor |-> 3000],
    ttfb |-> [good |-> 800,           poor |-> 1800],
    tbt  |-> [good |-> Fixed(200),    poor |-> Fixed(600)],
    si   |-> [good |-> Fixed(3400),   poor |-> Fixed(5800)],
    tti  |-> [good |-> Fixed(3800),   poor |-> Fixed(7300)] ]

\* variant: only tbt is multiplied before it is compared
LabMetrics_TbtOnly == {"tbt"}

LabMetrics == {"tbt", "si", "tti"}

\* ------------------------------------------------------------------------
\* State
\* ------------------------------------------------------------------------
VARIABLES
  pc,             \* position of measure()
  webVitals,      \* window.__performanceMetrics.webVitals (value of each metric)
  longTasks,      \* window.__performanceMetrics.longTasks
  lcpCandidates,  \* window.__performanceMetrics.lcpCandidates
  paintEntries,   \* window.__performanceMetrics.paintEntries
  nav,            \* performance.getEntriesByType('navigation')[0]: its loadEventEnd
  paint,          \* performance.getEntriesByType('paint')
  lcpEntries,     \* performance.getEntriesByType('largest-contentful-paint')
  derived,        \* locals of the snapshot script: fcp, finalLCP, totalBlockingTime, tti, speedIndex
  metrics,        \* the bundle returned by the snapshot script
  webVitalsLib,   \* this.webVitalsLib is loaded
  browser,        \* "none", "open" or "closed"
  elapsed,        \* loop variable of the stabilization loop (ms)
  lastLCP,        \* lastLCP
  stableLCPCount, \* stableLCPCount
  readings,       \* history: the currentLCP of every poll so far
  loopExit,       \* history: "none", "break" or "ceiling"
  clickFailed,    \* history: page.click('body') threw
  events,         \* number of page events delivered so far
  result,         \* what measure() gave its caller: "none", "bundle" or "error"
  observers,      \* which PerformanceObserver registrations of the collector succeeded
  grades,         \* the indicator printSingle shows for each metric of the bundle
  mobile,         \* this.mobile of the measurer
  tab,            \* what has been configured on the page before it navigates
  openBrowsers,   \* browsers launched by the program and not closed yet
  mainPc,         \* position of main() and measureWithRetry()
  argv,           \* the command line: urls and the --mobile flag
  urlIx,          \* main: index of the url being measured
  attempt,        \* measureWithRetry: attempt
  desktop,        \* main: desktop (null or a bundle)
  mobileData,     \* main: mobileData (null or a bundle)
  results,        \* main: results
  output          \* what printSingle or printCompare wrote

store == <<webVitals, longTasks, lcpCandidates, paintEntries>>
timeline == <<nav, paint, lcpEntries>>
loop == <<elapsed, lastLCP, stableLCPCount, readings, loopExit>>
snapshot == <<derived, metrics>>
caller == <<mainPc, argv, urlIx, attempt, desktop, mobileData, results, output>>

vars == <<pc, webVitals, longTasks, lcpCandidates, paintEntries, nav, paint,
          lcpEntries, derived, metrics, webVitalsLib, browser, elapsed, lastLCP,
          stableLCPCount, readings, loopExit, clickFailed, events, result,
          observers, grades, mobile, tab, openBrowsers, mainPc, argv, urlIx,
          attempt, desktop, mobileData, results, output>>

\* ------------------------------------------------------------------------
\* Metric derivation (the snapshot script)
\* ------------------------------------------------------------------------

\* paint.find(e => e.name === 'first-contentful-paint')?.startTime
RECURSIVE FindFcp(_)
FindFcp(p) ==
  IF p = <<>> THEN NULL
  ELSE IF Head(p).name = "first-contentful-paint" THEN Num(Head(p).startTime)
  ELSE FindFcp(Tail(p))

\* fcp = perf.webVitals?.FCP?.value || paint.find(...)?.startTime || null
GetFcp(wv, p) == Or(Or(wv.FCP, FindFcp(p)), NULL)

\* mutant: the first entry is taken instead of the last
GetFinalLCP_FirstEntry(wv, entries) ==
  LET helper == Or(wv.LCP, NULL)
  IN  IF Len(entries) > 0
      THEN LET apiLCP == entries[1].startTime
           IN  IF ~Truthy(helper) \/ apiLCP > Val(helper) THEN Num(apiLCP) ELSE helper
      ELSE helper

\* finalLCP: the helper's value, overridden by the last entry when it is larger
GetFinalLCP(wv, entries) ==
  LET helper == Or(wv.LCP, NULL)
  IN  IF Len(entries) > 0
      THEN LET apiLCP == entries[Len(entries)].startTime
           IN  IF ~Truthy(helper) \/ apiLCP > Val(helper) THEN Num(apiLCP) ELSE helper
      ELSE helper

\* const tti = nav ? nav.loadEventEnd : finalLCP || 10000   (upper end of the TBT window)
TbtBoundary(n, finalLCP) ==
  IF n # NULL THEN Val(n) ELSE Val(Or(finalLCP, Num(TbtCap)))

\* mutant: a task that starts exactly at FCP is left out
RECURSIVE SumBlocking_AfterFcpOnly(_, _, _)
SumBlocking_AfterFcpOnly(tasks, lo, hi) ==
  IF tasks = <<>> THEN 0
  ELSE LET task == Head(tasks)
       IN  (IF task.startTime > lo /\ task.startTime < hi THEN task.blockingTime ELSE 0)
           + SumBlocking_AfterFcpOnly(Tail(tasks), lo, hi)

\* perf.longTasks.forEach(task => { if (in window) totalBlockingTime += task.blockingTime })
RECURSIVE SumBlocking(_, _, _)
SumBlocking(tasks, lo, hi) ==
  IF tasks = <<>> THEN 0
  ELSE LET task == Head(tasks)
       IN  (IF task.startTime >= lo /\ task.startTime < hi THEN task.blockingTime ELSE 0)
           + SumBlocking(Tail(tasks), lo, hi)

GetTotalBlockingTime(tasks, fcp, n, finalLCP) ==
  IF Len(tasks) > 0 /\ Truthy(fcp)
  THEN SumBlocking(tasks, Val(fcp), TbtBoundary(n, finalLCP))
  ELSE 0

\* variant: every stored task is kept
FilterFromFcp_All(tasks, fcp) == tasks

\* .filter(t => t.startTime >= fcp)
RECURSIVE FilterFromFcp(_, _)
FilterFromFcp(tasks, fcp) ==
  IF tasks = <<>> THEN <<>>
  ELSE IF Head(tasks).startTime >= fcp
       THEN <<Head(tasks)>> \o FilterFromFcp(Tail(tasks), fcp)
       ELSE FilterFromFcp(Tail(tasks), fcp)

\* insertion of t behind every element that does not compare greater (stable)
RECURSIVE InsertSorted(_, _)
InsertSorted(sorted, t) ==
  IF sorted = <<>> THEN <<t>>
  ELSE IF Head(sorted).startTime - t.startTime > 0
       THEN <<t>> \o sorted
       ELSE <<Head(sorted)>> \o InsertSorted(Tail(sorted), t)

\* mutant: the tasks are walked in arrival order
SortByStart_Unsorted(tasks) == tasks

\* .sort((a, b) => a.startTime - b.startTime): Array.prototype.sort is stable
RECURSIVE SortByStart(_)
SortByStart(tasks) ==
  IF tasks = <<>> THEN <<>>
  ELSE InsertSorted(SortByStart(SubSeq(tasks, 1, Len(tasks) - 1)), tasks[Len(tasks)])

\* mutant: a gap of exactly 5000ms is not a quiet window
RECURSIVE WalkTasks_StrictGap(_, _)
WalkTasks_StrictGap(sortedTasks, lastTaskEnd) ==
  IF sortedTasks = <<>> THEN lastTaskEnd
  ELSE LET task == Head(sortedTasks)
           gapBeforeTask == task.startTime - lastTaskEnd
       IN  IF gapBeforeTask > quietWindow
           THEN lastTaskEnd
           ELSE WalkTasks_StrictGap(Tail(sortedTasks), task.startTime + task.duration)

\* the for loop over sortedTasks: returns tti
RECURSIVE WalkTasks(_, _)
WalkTasks(sortedTasks, lastTaskEnd) ==
  IF sortedTasks = <<>> THEN lastTaskEnd
  ELSE LET task == Head(sortedTasks)
           gapBeforeTask == task.startTime - lastTaskEnd
       IN  IF gapBeforeTask >= quietWindow
           THEN lastTaskEnd
           ELSE WalkTasks(Tail(sortedTasks), task.startTime + task.duration)

\* variant: without a long task from FCP on there is no TTI
GetTti_NullWithoutTasks(tasks, fcp) ==
  IF Truthy(fcp)
  THEN LET sortedTasks == SortByStart(FilterFromFcp(tasks, Val(fcp)))
       IN  IF Len(sortedTasks) = 0 THEN NULL
           ELSE Num(WalkTasks(sortedTasks, Val(fcp)))
  ELSE NULL

GetTti(tasks, fcp) ==
  IF Truthy(fcp)
  THEN LET sortedTasks == SortByStart(FilterFromFcp(tasks, Val(fcp)))
       IN  IF Len(sortedTasks) = 0 THEN fcp
           ELSE Num(WalkTasks(sortedTasks, Val(fcp)))
  ELSE NULL

\* speedIndex, in tenths of a tick (fcp * 1.8, fcp + (finalLCP - fcp) * 0.6)
SiScale == 10

\* variant: interpolates as soon as finalLCP reaches fcp
GetSpeedIndex_AtLeast(fcp, finalLCP) ==
  IF Truthy(fcp)
  THEN IF Truthy(finalLCP) /\ Val(finalLCP) >= Val(fcp)
       THEN Num(Val(fcp) * SiScale + (Val(finalLCP) - Val(fcp)) * 6)
       ELSE Num(Val(fcp) * 18)
  ELSE NULL

GetSpeedIndex(fcp, finalLCP) ==
  IF Truthy(fcp)
  THEN IF Truthy(finalLCP) /\ Val(finalLCP) > Val(fcp)
       THEN Num(Val(fcp) * SiScale + (Val(finalLCP) - Val(fcp)) * 6)
       ELSE Num(Val(fcp) * 18)
  ELSE NULL

\* the locals of the snapshot script
Derive(wv, tasks, n, p, entries) ==
  LET fcp == GetFcp(wv, p)
      finalLCP == GetFinalLCP(wv, entries)
  IN  [ fcp |-> fcp,
        finalLCP |-> finalLCP,
        totalBlockingTime |-> GetTotalBlockingTime(tasks, fcp, n, finalLCP),
        tti |-> GetTti(tasks, fcp),
        speedIndex |-> GetSpeedIndex(fcp, finalLCP) ]

\* x ? Math.round(x) / 1000 : null
RoundToSeconds(x) == IF Truthy(x) THEN Num(MathRound(Val(x))) ELSE NULL

\* variant: cls has no default
Bundle_ClsNull(wv, d) ==
  [ lcp  |-> RoundToSeconds(d.finalLCP),
    fcp  |-> RoundToSeconds(d.fcp),
    cls  |-> wv.CLS,
    ttfb |-> RoundToSeconds(wv.TTFB),
    tbt  |-> Num(Fixed(MathRound(d.totalBlockingTime))),
    tti  |-> RoundToSeconds(d.tti),
    si   |-> IF Truthy(d.speedIndex)
             THEN Num(RoundDiv(Val(d.speedIndex), SiScale * TicksPerMs))
             ELSE NULL,
    source |-> "Local (Puppeteer)" ]

\* the returned object
Bundle(wv, d) ==
  [ lcp  |-> RoundToSeconds(d.finalLCP),
    fcp  |-> RoundToSeconds(d.fcp),
    cls  |-> Or(wv.CLS, Num(0)),
    ttfb |-> RoundToSeconds(wv.TTFB),
    tbt  |-> Num(Fixed(MathRound(d.totalBlockingTime))),
    tti  |-> RoundToSeconds(d.tti),
    si   |-> IF Truthy(d.speedIndex)
             THEN Num(RoundDiv(Val(d.speedIndex), SiScale * TicksPerMs))
             ELSE NULL,
    source |-> "Local (Puppeteer)" ]

\* ------------------------------------------------------------------------
\* Grading
\* ------------------------------------------------------------------------
Metrics == DOMAIN THRESHOLDS

\* variant: a value equal to the good threshold is not good
indicator_Strict(metric, value) ==
  IF value = NULL THEN "none"
  ELSE IF metric \notin Metrics THEN "none"
  ELSE LET thresh == THRESHOLDS[metric]
           compareValue == IF metric \in LabMetrics THEN Val(value) * MsFactor
                           ELSE Val(value)
       IN  IF compareValue < thresh.good THEN "good"
           ELSE IF compareValue <= thresh.poor THEN "needs-improvement"
           ELSE "poor"

\* indicator(metric, value): value in thousandths
indicator(metric, value) ==
  IF value = NULL THEN "none"
  ELSE IF metric \notin Metrics THEN "none"
  ELSE LET thresh == THRESHOLDS[metric]
           compareValue == IF metric \in LabMetrics THEN Val(value) * MsFactor
                           ELSE Val(value)
       IN  IF compareValue <= thresh.good THEN "good"
           ELSE IF compareValue <= thresh.poor THEN "needs-improvement"
           ELSE "poor"

\* nothing printed yet
NoGrades == [k \in Metrics |-> "unset"]

\* ------------------------------------------------------------------------
\* Inputs of the model
\* ------------------------------------------------------------------------
MaxEvents == 2

SeqsUpTo(S, n) == UNION { [1..k -> S] : k \in 0..n }

\* a stored long task, as the collector's callback builds it
Task(start, dur) ==
  [startTime |-> start, duration |-> dur, blockingTime |-> dur - LongTaskThreshold]

\* long-task entries the browser may report (start, duration)
RawTasks ==
  { <<Ms(200), Ms(60)>>, <<Ms(200), Ms(6000)>>,
    <<Ms(1000), Ms(60)>>, <<Ms(1000), Ms(80) + 1>>, <<Ms(1000), Ms(6000)>>,
    <<Ms(4000), Ms(60)>>, <<Ms(4000), Ms(80) + 1>>,
    <<Ms(6060), Ms(60)>> }

StoredTasks == { Task(r[1], r[2]) : r \in RawTasks }

PaintFp == [name |-> "first-paint", startTime |-> Ms(500)]
PaintFcp == [name |-> "first-contentful-paint", startTime |-> Ms(500)]

LcpEntryA == [startTime |-> Ms(1000), size |-> 100]
LcpEntryB == [startTime |-> Ms(3000), size |-> 50]
LcpEntryValues == {LcpEntryA, LcpEntryB}

\* lcpObserver's record of an entry (renderTime: entry.renderTime || entry.startTime)
Candidate(e) == [startTime |-> e.startTime, renderTime |-> e.startTime, size |-> e.size]

RECURSIVE MapCandidates(_)
MapCandidates(es) ==
  IF es = <<>> THEN <<>> ELSE <<Candidate(Head(es))>> \o MapCandidates(Tail(es))

HelperFcpValues == {NULL, Num(Ms(1000))}
HelperLcpValues == {NULL, Num(Ms(2000))}
NavValues == {NULL, Num(0), Num(Ms(4000))}

\* CLS (thousandths) and TTFB (ticks) as the helper reports them
HelperRest ==
  { [CLS |-> NULL, TTFB |-> NULL],
    [CLS |-> Num(0), TTFB |-> Num(Ms(800) + 1)],
    [CLS |-> Num(120), TTFB |-> Num(Ms(40))] }

NoVitals == [LCP |-> NULL, FCP |-> NULL, CLS |-> NULL, TTFB |-> NULL]

NoDerived ==
  [fcp |-> NULL, finalLCP |-> NULL, totalBlockingTime |-> 0, tti |-> NULL,
   speedIndex |-> NULL]

NoMetrics ==
  [lcp |-> NULL, fcp |-> NULL, cls |-> NULL, ttfb |-> NULL, tbt |-> NULL,
   tti |-> NULL, si |-> NULL, source |-> "none"]

\* ------------------------------------------------------------------------
\* The snapshot script: page.evaluate(() => { ... return {...} })
\* ------------------------------------------------------------------------
\* variant: the quiet-window scan sorts the store's own array
Snapshot_SortsInPlace ==
  /\ pc = "snapshot"
  /\ derived' = Derive(webVitals, longTasks, nav, paint, lcpEntries)
  /\ metrics' = Bundle(webVitals, derived')
  /\ longTasks' = SortByStart(longTasks)
  /\ pc' = "close"
  /\ UNCHANGED <<webVitals, lcpCandidates, paintEntries, timeline, loop,
                 webVitalsLib, browser, clickFailed, events, result,
                 observers, grades, mobile, tab, openBrowsers, caller>>

Snapshot ==
  /\ pc = "snapshot"
  /\ derived' = Derive(webVitals, longTasks, nav, paint, lcpEntries)
  /\ metrics' = Bundle(webVitals, derived')
  /\ pc' = "close"
  /\ UNCHANGED <<store, timeline, loop, webVitalsLib, browser, clickFailed,
                 events, result, observers, grades, mobile, tab, openBrowsers,
                 caller>>

\* ------------------------------------------------------------------------
\* The in-page collector (callbacks run while a document is loaded)
\* ------------------------------------------------------------------------
\* page events the model delivers: MaxEvents in a session measured on its own,
\* one fewer over all the sessions of a run of main()
EventBudget == IF mainPc = "none" THEN MaxEvents ELSE MaxEvents - 1

PageLive ==
  pc \in {"loading", "settle", "poll", "scrollMid", "sleep", "scrollTop",
          "pause500", "click", "pause1000", "snapshot"}

\* a page on which nothing has been configured yet
NoTab ==
  [viewport |-> "none", userAgent |-> FALSE, lib |-> FALSE, collector |-> FALSE,
   network |-> FALSE, cpu |-> FALSE]

\* the page of a desktop session when it navigates
DesktopTab == [NoTab EXCEPT !.viewport = "desktop", !.lib = TRUE, !.collector = TRUE]

\* the three observer.observe() calls of the collector: each one succeeds, or
\* throws into its empty catch and leaves the observer unregistered
NoObservers == [longtask |-> FALSE, paint |-> FALSE, lcp |-> FALSE]
AllObservers == [longtask |-> TRUE, paint |-> TRUE, lcp |-> TRUE]
ObserverOutcomes == [{"longtask", "paint", "lcp"} -> BOOLEAN]

\* what the helper library may report: metric name and value
HelperReports ==
  { <<"LCP", Ms(1500)>>, <<"LCP", Ms(2500)>>, <<"FCP", Ms(1000)>>,
    <<"CLS", 120>>, <<"TTFB", Ms(40)>> }

\* long-task entries the browser may deliver during a session
SessionRawTasks == { <<Ms(200), Ms(6000)>>, <<Ms(1000), Ms(60)>>, <<Ms(1000), Ms(50)>> }

\* captureMetric(metric)
captureMetric ==
  /\ PageLive /\ webVitalsLib /\ events < EventBudget
  /\ \E m \in HelperReports : webVitals' = [webVitals EXCEPT ![m[1]] = Num(m[2])]
  /\ events' = events + 1
  /\ UNCHANGED <<pc, longTasks, lcpCandidates, paintEntries, timeline,
                 snapshot, loop, webVitalsLib, browser, clickFailed, result,
                 observers, grades, mobile, tab, openBrowsers, caller>>

\* variant: the callback keeps only the latest long task
OnLongTask_KeepsLast ==
  /\ PageLive /\ events < EventBudget
  /\ observers.longtask
  /\ \E r \in SessionRawTasks :
       longTasks' = IF r[2] > LongTaskThreshold
                    THEN <<Task(r[1], r[2])>>
                    ELSE longTasks
  /\ events' = events + 1
  /\ UNCHANGED <<pc, webVitals, lcpCandidates, paintEntries, timeline,
                 snapshot, loop, webVitalsLib, browser, clickFailed, result,
                 observers, grades, mobile, tab, openBrowsers, caller>>

\* taskObserver callback, one entry
OnLongTask ==
  /\ PageLive /\ events < EventBudget
  /\ observers.longtask
  /\ \E r \in SessionRawTasks :
       longTasks' = IF r[2] > LongTaskThreshold
                    THEN Append(longTasks, Task(r[1], r[2]))
                    ELSE longTasks
  /\ events' = events + 1
  /\ UNCHANGED <<pc, webVitals, lcpCandidates, paintEntries, timeline,
                 snapshot, loop, webVitalsLib, browser, clickFailed, result,
                 observers, grades, mobile, tab, openBrowsers, caller>>

\* a paint entry is put on the performance timeline; paintObserver's callback
\* stores it when the observer is registered
OnPaint ==
  /\ PageLive /\ events < EventBudget
  /\ \E e \in {PaintFp, PaintFcp} :
       /\ paintEntries' = IF observers.paint THEN Append(paintEntries, e)
                          ELSE paintEntries
       /\ paint' = Append(paint, e)
  /\ events' = events + 1
  /\ UNCHANGED <<pc, webVitals, longTasks, lcpCandidates, nav, lcpEntries,
                 snapshot, loop, webVitalsLib, browser, clickFailed, result,
                 observers, grades, mobile, tab, openBrowsers, caller>>

\* a largest-contentful-paint entry is put on the performance timeline;
\* lcpObserver's callback stores it when the observer is registered
OnLcpEntry ==
  /\ PageLive /\ events < EventBudget
  /\ \E e \in LcpEntryValues :
       /\ lcpCandidates' = IF observers.lcp
                           THEN Append(lcpCandidates, Candidate(e))
                           ELSE lcpCandidates
       /\ lcpEntries' = Append(lcpEntries, e)
  /\ events' = events + 1
  /\ UNCHANGED <<pc, webVitals, longTasks, paintEntries, nav, paint, snapshot,
                 loop, webVitalsLib, browser, clickFailed, result, observers,
                 grades, mobile, tab, openBrowsers, caller>>

\* the load event ends: the navigation entry gets its loadEventEnd
OnLoad ==
  /\ PageLive /\ nav = Num(0)
  /\ nav' = Num(Ms(4000))
  /\ UNCHANGED <<pc, store, paint, lcpEntries, snapshot, loop, webVitalsLib,
                 browser, clickFailed, events, result, observers, grades,
                 mobile, tab, openBrowsers, caller>>

\* ------------------------------------------------------------------------
\* init() and measure()
\* ------------------------------------------------------------------------
Goto(next) ==
  /\ pc' = next
  /\ UNCHANGED <<store, timeline, snapshot, loop, webVitalsLib, browser,
                 clickFailed, events, result, observers, grades, mobile, tab,
                 openBrowsers, caller>>

\* init(): the library is read from one of the two paths
LoadLibrary ==
  /\ pc = "init"
  /\ webVitalsLib' = TRUE
  /\ pc' = "launch"
  /\ UNCHANGED <<store, timeline, snapshot, loop, browser, clickFailed,
                 events, result, observers, grades, mobile, tab, openBrowsers,
                 caller>>

\* init(): neither path can be read, init() throws
LibraryMissing == pc = "init" /\ Goto("initFailed")

\* puppeteer.launch()
Launch ==
  /\ pc = "launch"
  /\ browser' = "open"
  /\ openBrowsers' = openBrowsers + 1
  /\ pc' = "setup"
  /\ UNCHANGED <<store, timeline, snapshot, loop, webVitalsLib, clickFailed,
                 events, result, observers, grades, mobile, tab, caller>>

\* puppeteer.launch() rejects: measure() throws before its try block
LaunchFails ==
  /\ pc = "launch"
  /\ result' = "error"
  /\ pc' = "failed"
  /\ UNCHANGED <<store, timeline, snapshot, loop, webVitalsLib, browser,
                 clickFailed, events, observers, grades, mobile, tab,
                 openBrowsers, caller>>

\* one configuration call on the page: the tab changes, measure() moves on
Configure(newTab, next) ==
  /\ tab' = newTab
  /\ pc' = next
  /\ UNCHANGED <<store, timeline, snapshot, loop, webVitalsLib, browser,
                 clickFailed, events, result, observers, grades, mobile,
                 openBrowsers, caller>>

\* browser.newPage()
NewPage == pc = "setup" /\ Configure(NoTab, "viewport")

\* browser.newPage() rejects: the first call inside the try block
NewPageFails == pc = "setup" /\ Goto("closeOnError")

\* page.setViewport(...), by profile
SetViewport ==
  /\ pc = "viewport"
  /\ Configure([tab EXCEPT !.viewport = IF mobile THEN "mobile" ELSE "desktop"],
               IF mobile THEN "userAgent" ELSE "inject")

\* page.setUserAgent(...), mobile only
SetUserAgent ==
  /\ pc = "userAgent"
  /\ Configure([tab EXCEPT !.userAgent = TRUE], "inject")

\* if (this.webVitalsLib) page.evaluateOnNewDocument(this.webVitalsLib)
InjectLibrary ==
  /\ pc = "inject"
  /\ Configure([tab EXCEPT !.lib = webVitalsLib], "collector")

\* variant: the collector is not registered for new documents
InstallCollector_Skipped ==
  /\ pc = "collector"
  /\ Configure(tab, IF mobile THEN "throttle" ELSE "goto")

\* page.evaluateOnNewDocument(() => { ...the collector... })
InstallCollector ==
  /\ pc = "collector"
  /\ Configure([tab EXCEPT !.collector = TRUE],
               IF mobile THEN "throttle" ELSE "goto")

\* createCDPSession, Network.enable, Network.emulateNetworkConditions (mobile only)
ThrottleNetwork ==
  /\ pc = "throttle"
  /\ Configure([tab EXCEPT !.network = TRUE], "cpu")

\* Emulation.setCPUThrottlingRate (mobile only)
ThrottleCpu ==
  /\ pc = "cpu"
  /\ Configure([tab EXCEPT !.cpu = TRUE], "goto")

\* variant: the new document goes on with the store it finds
Navigate_KeepsStore ==
  /\ pc = "goto"
  /\ observers' \in ObserverOutcomes
  /\ pc' = "loading"
  /\ UNCHANGED <<store, timeline, snapshot, loop, webVitalsLib, browser,
                 clickFailed, events, result, grades, mobile, tab,
                 openBrowsers, caller>>

\* page.goto() is issued: a new document, its store created by the collector
Navigate ==
  /\ pc = "goto"
  /\ webVitals' = NoVitals
  /\ longTasks' = <<>>
  /\ lcpCandidates' = <<>>
  /\ paintEntries' = <<>>
  /\ nav' = Num(0)
  /\ paint' = <<>>
  /\ lcpEntries' = <<>>
  /\ observers' \in ObserverOutcomes
  /\ pc' = "loading"
  /\ UNCHANGED <<snapshot, loop, webVitalsLib, browser, clickFailed, events,
                 result, grades, mobile, tab, openBrowsers, caller>>

\* page.goto() resolves at DOMContentLoaded
GotoLoaded == pc = "loading" /\ Goto("settle")

\* variant: a failed navigation is tried again
GotoTimeout_Retries == pc = "loading" /\ Goto("goto")

\* page.goto() rejects after 30000ms
GotoTimeout == pc = "loading" /\ Goto("closeOnError")

\* the 5000ms wait, then the loop's initialisation
Settle ==
  /\ pc = "settle"
  /\ elapsed' = 0
  /\ lastLCP' = NULL
  /\ stableLCPCount' = 0
  /\ pc' = "poll"
  /\ UNCHANGED <<store, timeline, snapshot, readings, loopExit, webVitalsLib,
                 browser, clickFailed, events, result, observers, grades,
                 mobile, tab, openBrowsers, caller>>

\* mutant: null equal to null counts as stable
IsStable_NullCounts(currentLCP, last) == currentLCP = last

\* currentLCP === lastLCP && currentLCP !== null
IsStable(currentLCP, last) == currentLCP = last /\ currentLCP # NULL

\* mutant: one equal comparison is enough
StableEnough_Once(count) == count >= 1

\* stableLCPCount >= 2
StableEnough(count) == count >= 2

\* mutant: one more iteration at the ceiling
LoopContinues_Inclusive(e) == e <= maxWaitTime

\* elapsed < maxWaitTime
LoopContinues(e) == e < maxWaitTime

\* one iteration up to the break: read the LCP, compare, count
Poll ==
  /\ pc = "poll"
  /\ LET currentLCP == Or(webVitals.LCP, NULL)
     IN  /\ readings' = Append(readings, currentLCP)
         /\ IF IsStable(currentLCP, lastLCP)
            THEN /\ stableLCPCount' = stableLCPCount + 1
                 /\ lastLCP' = lastLCP
                 /\ IF StableEnough(stableLCPCount')
                    THEN pc' = "scrollTop" /\ loopExit' = "break"
                    ELSE pc' = "scrollMid" /\ loopExit' = loopExit
            ELSE /\ stableLCPCount' = 0
                 /\ lastLCP' = currentLCP
                 /\ pc' = "scrollMid"
                 /\ loopExit' = loopExit
  /\ UNCHANGED <<store, timeline, snapshot, elapsed, webVitalsLib, browser,
                 clickFailed, events, result, observers, grades, mobile, tab,
                 openBrowsers, caller>>

\* window.scrollTo(0, document.body.scrollHeight / 2)
ScrollMid == pc = "scrollMid" /\ Goto("sleep")

\* the 3000ms wait, elapsed += checkInterval and the loop test
Sleep ==
  /\ pc = "sleep"
  /\ elapsed' = elapsed + checkInterval
  /\ IF LoopContinues(elapsed')
     THEN pc' = "poll" /\ loopExit' = loopExit
     ELSE pc' = "scrollTop" /\ loopExit' = "ceiling"
  /\ UNCHANGED <<store, timeline, snapshot, lastLCP, stableLCPCount, readings,
                 webVitalsLib, browser, clickFailed, events, result,
                 observers, grades, mobile, tab, openBrowsers, caller>>

\* variant: the click follows the scroll at once
ScrollTop_NoPause == pc = "scrollTop" /\ Goto("click")

\* window.scrollTo(0, 0)
ScrollTop == pc = "scrollTop" /\ Goto("pause500")

\* the 500ms wait
Pause500 == pc = "pause500" /\ Goto("click")

\* page.click('body')
Click == pc = "click" /\ Goto("pause1000")

\* variant: the rejection of page.click is not caught
ClickFails_Fatal ==
  /\ pc = "click"
  /\ clickFailed' = TRUE
  /\ pc' = "closeOnError"
  /\ UNCHANGED <<store, timeline, snapshot, loop, webVitalsLib, browser,
                 events, result, observers, grades, mobile, tab, openBrowsers,
                 caller>>

\* page.click('body') throws: caught and ignored
ClickFails ==
  /\ pc = "click"
  /\ clickFailed' = TRUE
  /\ pc' = "pause1000"
  /\ UNCHANGED <<store, timeline, snapshot, loop, webVitalsLib, browser,
                 events, result, observers, grades, mobile, tab, openBrowsers,
                 caller>>

\* the 1000ms wait
Pause1000 == pc = "pause1000" /\ Goto("snapshot")

\* variant: the success path returns without closing the browser
Close_LeavesOpen == pc = "close" /\ Goto("return")

\* await browser.close() after the snapshot
Close ==
  /\ pc = "close"
  /\ browser' = "closed"
  /\ openBrowsers' = openBrowsers - 1
  /\ pc' = "return"
  /\ UNCHANGED <<store, timeline, snapshot, loop, webVitalsLib, clickFailed,
                 events, result, observers, grades, mobile, tab, caller>>

\* return metrics
Return ==
  /\ pc = "return"
  /\ result' = "bundle"
  /\ pc' = "done"
  /\ UNCHANGED <<store, timeline, snapshot, loop, webVitalsLib, browser,
                 clickFailed, events, observers, grades, mobile, tab,
                 openBrowsers, caller>>

\* printSingle(url, mobile, desktop), for the bundle the session returned: the
\* CWV and the Lab line show indicator(k, data[k]) for each metric
printSingle ==
  /\ pc = "done" /\ result = "bundle"
  /\ grades' = [k \in Metrics |-> indicator(k, metrics[k])]
  /\ pc' = "printed"
  /\ UNCHANGED <<store, timeline, snapshot, loop, webVitalsLib, browser,
                 clickFailed, events, result, observers, mobile, tab,
                 openBrowsers, caller>>

\* variant: the catch block rethrows without closing the browser
CloseOnError_LeavesOpen == pc = "closeOnError" /\ Goto("throw")

\* catch (error) { await browser.close(); ...
CloseOnError ==
  /\ pc = "closeOnError"
  /\ browser' = "closed"
  /\ openBrowsers' = openBrowsers - 1
  /\ pc' = "throw"
  /\ UNCHANGED <<store, timeline, snapshot, loop, webVitalsLib, clickFailed,
                 events, result, observers, grades, mobile, tab, caller>>

\* ... throw error }
Throw ==
  /\ pc = "throw"
  /\ result' = "error"
  /\ pc' = "failed"
  /\ UNCHANGED <<store, timeline, snapshot, loop, webVitalsLib, browser,
                 clickFailed, events, observers, grades, mobile, tab,
                 openBrowsers, caller>>

\* ------------------------------------------------------------------------
\* main() and measureWithRetry()
\* ------------------------------------------------------------------------
\* a call of measurer.measure(url): its locals are new, no browser yet; the page
\* of an earlier session is gone with its browser, its events are kept in the
\* model until the next document replaces them
FreshSession ==
  /\ browser' = "none"
  /\ tab' = NoTab
  /\ derived' = NoDerived
  /\ metrics' = NoMetrics
  /\ elapsed' = 0
  /\ lastLCP' = NULL
  /\ stableLCPCount' = 0
  /\ readings' = <<>>
  /\ loopExit' = "none"
  /\ clickFailed' = FALSE
  /\ result' = "none"
  /\ observers' = NoObservers

\* const measurer = new LocalCWVMeasurement({ mobile: m, ... }); measurer.init()
\* is next, then measureWithRetry(measurer, url) with attempt = 1
NewMeasurer(m, where) ==
  /\ mobile' = m
  /\ webVitalsLib' = FALSE
  /\ attempt' = 1
  /\ pc' = "init"
  /\ mainPc' = where
  /\ FreshSession

\* for (const url of urls): the desktop measurer of the next url
MainDesktop ==
  /\ mainPc = "loop" /\ urlIx < Len(argv.urls)
  /\ urlIx' = urlIx + 1
  /\ desktop' = NULL
  /\ mobileData' = NULL
  /\ NewMeasurer(FALSE, "desktop")
  /\ UNCHANGED <<store, timeline, events, grades, openBrowsers, argv, results,
                 output>>

\* if (mobile): the mobile measurer of the same url
MainMobile ==
  /\ mainPc = "afterDesktop" /\ argv.mobile
  /\ NewMeasurer(TRUE, "mobile")
  /\ UNCHANGED <<store, timeline, events, grades, openBrowsers, argv, urlIx,
                 desktop, mobileData, results, output>>

\* measurer.init() threw: main() rejects and the process exits with 1
MainAborts ==
  /\ mainPc \in {"desktop", "mobile"} /\ pc = "initFailed"
  /\ mainPc' = "exit1"
  /\ pc' = "idle"
  /\ UNCHANGED <<store, timeline, snapshot, loop, webVitalsLib, browser,
                 clickFailed, events, result, observers, grades, mobile, tab,
                 openBrowsers, argv, urlIx, attempt, desktop, mobileData,
                 results, output>>

\* what main() does with the outcome of measureWithRetry: data is the bundle
\* or null
WrapperDone(data) ==
  /\ desktop' = IF mainPc = "desktop" THEN data ELSE desktop
  /\ mobileData' = IF mainPc = "mobile" THEN data ELSE mobileData
  /\ mainPc' = IF mainPc = "desktop" THEN "afterDesktop" ELSE "afterMobile"
  /\ pc' = "idle"
  /\ UNCHANGED <<store, timeline, snapshot, loop, webVitalsLib, browser,
                 clickFailed, events, result, observers, grades, mobile, tab,
                 openBrowsers, argv, urlIx, attempt, results, output>>

\* measureWithRetry: return result
WrapperReturns ==
  /\ mainPc \in {"desktop", "mobile"}
  /\ pc = "done" /\ result = "bundle"
  /\ WrapperDone(Num(metrics))

\* variant: a fourth attempt is allowed
LastAttempt_Four(a) == a = maxAttempts + 1

\* attempt === maxAttempts
LastAttempt(a) == a = maxAttempts

\* measureWithRetry: the last attempt failed, throw error; main() logs it
WrapperThrows ==
  /\ mainPc \in {"desktop", "mobile"}
  /\ pc = "failed" /\ result = "error"
  /\ LastAttempt(attempt)
  /\ WrapperDone(NULL)

\* measureWithRetry: the catch block of a failed attempt that is not the
\* last, attempt++, and the delayMs wait of the next iteration begins
RetryWait ==
  /\ mainPc \in {"desktop", "mobile"}
  /\ pc = "failed" /\ result = "error"
  /\ ~LastAttempt(attempt)
  /\ attempt' = attempt + 1
  /\ pc' = "retryWait"
  /\ UNCHANGED <<store, timeline, snapshot, loop, webVitalsLib, browser,
                 clickFailed, events, result, observers, grades, mobile, tab,
                 openBrowsers, mainPc, argv, urlIx, desktop, mobileData,
                 results, output>>

\* measureWithRetry: the wait is over, measurer.measure(url) is called again
RetryMeasure ==
  /\ pc = "retryWait"
  /\ pc' = "launch"
  /\ FreshSession
  /\ UNCHANGED <<store, timeline, webVitalsLib, events, grades, mobile,
                 openBrowsers, caller>>

\* results.push({ url, mobile: mobileData, desktop })
MainPush ==
  /\ \/ mainPc = "afterDesktop" /\ ~argv.mobile
     \/ mainPc = "afterMobile"
  /\ results' = Append(results, [url |-> argv.urls[urlIx], mobile |-> mobileData,
                                 desktop |-> desktop])
  /\ mainPc' = IF urlIx < Len(argv.urls) THEN "loop" ELSE "print"
  /\ UNCHANGED <<pc, store, timeline, snapshot, loop, webVitalsLib, browser,
                 clickFailed, events, result, observers, grades, mobile, tab,
                 openBrowsers, argv, urlIx, attempt, desktop, mobileData,
                 output>>

\* printSingle: what is written under one label
ProfileLine(data) ==
  IF data # NULL
  THEN [text |-> "metrics", grades |-> [k \in Metrics |-> indicator(k, Val(data)[k])]]
  ELSE [text |-> "Measurement failed"]

\* main: results.length === 1, printSingle(url, mobile, desktop) writes a
\* line under each of its two labels
mainPrintSingle ==
  /\ mainPc = "print" /\ Len(results) = 1
  /\ output' = [kind |-> "single",
                 mobile |-> ProfileLine(results[1].mobile),
                 desktop |-> ProfileLine(results[1].desktop)]
  /\ mainPc' = "exit"
  /\ UNCHANGED <<pc, store, timeline, snapshot, loop, webVitalsLib, browser,
                 clickFailed, events, result, observers, grades, mobile, tab,
                 openBrowsers, argv, urlIx, attempt, desktop, mobileData,
                 results>>

\* the metric rows of printCompare, in the order they are written
CompareKeys == <<"lcp", "cls", "fcp", "ttfb", "tbt", "si", "tti">>

\* the rows of one device profile: none when either site has no bundle
ProfileRows(dataA, dataB) ==
  IF dataA = NULL \/ dataB = NULL THEN <<>>
  ELSE [i \in 1..Len(CompareKeys) |->
          [k |-> CompareKeys[i], va |-> Val(dataA)[CompareKeys[i]],
           vb |-> Val(dataB)[CompareKeys[i]]]]

\* the winner column of a row
Winner(row) ==
  IF row.va # NULL /\ row.vb # NULL
  THEN IF Val(row.va) < Val(row.vb) THEN "A"
       ELSE IF Val(row.vb) < Val(row.va) THEN "B"
       ELSE "Tie"
  ELSE "none"

\* wins[urlA]++ / wins[urlB]++ over the rows, from the first row on
RECURSIVE Tally(_, _, _, _)
Tally(rows, urlA, urlB, wins) ==
  IF rows = <<>> THEN wins
  ELSE LET w == Winner(Head(rows))
           next == IF w = "A" THEN [wins EXCEPT ![urlA] = @ + 1]
                   ELSE IF w = "B" THEN [wins EXCEPT ![urlB] = @ + 1]
                   ELSE wins
       IN  Tally(Tail(rows), urlA, urlB, next)

\* printCompare(urlA, mobA, deskA, urlB, mobB, deskB): the winner column, the
\* win counts and the summary line
Compare(a, b) ==
  LET rows == ProfileRows(a.mobile, b.mobile) \o ProfileRows(a.desktop, b.desktop)
      wins == Tally(rows, a.url, b.url, [u \in {a.url, b.url} |-> 0])
      total == wins[a.url] + wins[b.url]
      leader == IF wins[a.url] >= wins[b.url] THEN a.url ELSE b.url
  IN  [kind |-> "compare",
       winners |-> [i \in 1..Len(rows) |-> Winner(rows[i])],
       wins |-> wins,
       leader |-> leader,
       leaderWins |-> wins[leader],
       total |-> total]

\* main: results.length === 2, printCompare(...)
printCompare ==
  /\ mainPc = "print" /\ Len(results) = 2
  /\ output' = Compare(results[1], results[2])
  /\ mainPc' = "exit"
  /\ UNCHANGED <<pc, store, timeline, snapshot, loop, webVitalsLib, browser,
                 clickFailed, events, result, observers, grades, mobile, tab,
                 openBrowsers, argv, urlIx, attempt, desktop, mobileData,
                 results>>

\* measure() called on its own: there is no main() and no wrapper
NoArgv == [urls |-> <<>>, mobile |-> FALSE]
NoOutput == [kind |-> "none"]

NoCaller ==
  /\ mainPc = "none"
  /\ argv = NoArgv
  /\ urlIx = 0
  /\ attempt = 0
  /\ desktop = NULL
  /\ mobileData = NULL
  /\ results = <<>>
  /\ output = NoOutput

Init ==
  /\ pc = "init"
  /\ webVitalsLib = FALSE
  /\ browser = "none"
  /\ webVitals = NoVitals
  /\ longTasks = <<>>
  /\ lcpCandidates = <<>>
  /\ paintEntries = <<>>
  /\ nav = NULL
  /\ paint = <<>>
  /\ lcpEntries = <<>>
  /\ derived = NoDerived
  /\ metrics = NoMetrics
  /\ elapsed = 0
  /\ lastLCP = NULL
  /\ stableLCPCount = 0
  /\ readings = <<>>
  /\ loopExit = "none"
  /\ clickFailed = FALSE
  /\ events = 0
  /\ result = "none"
  /\ observers = NoObservers
  /\ grades = NoGrades
  /\ mobile = FALSE
  /\ tab = NoTab
  /\ openBrowsers = 0
  /\ NoCaller

\* the steps of init() and measure() for a desktop measurer
MeasureStep ==
  \/ LoadLibrary \/ LibraryMissing
  \/ Launch \/ LaunchFails
  \/ NewPage \/ NewPageFails \/ SetViewport \/ InjectLibrary \/ InstallCollector
  \/ Navigate \/ GotoLoaded \/ GotoTimeout
  \/ Settle \/ Poll \/ ScrollMid \/ Sleep
  \/ ScrollTop \/ Pause500 \/ Click \/ ClickFails \/ Pause1000
  \/ Snapshot \/ Close \/ Return \/ CloseOnError \/ Throw

\* one desktop session whose bundle is printed
Step == MeasureStep \/ printSingle

\* the steps measure() takes only when this.mobile is set
MobileStep == SetUserAgent \/ ThrottleNetwork \/ ThrottleCpu

\* what the page does on its own
PageEvent == captureMetric \/ OnLongTask \/ OnPaint \/ OnLcpEntry \/ OnLoad

Next == Step \/ PageEvent

Spec == Init /\ [][Next]_vars

\* the event loop runs every timer and continuation of measure() that is due
FairSpec == Spec /\ WF_vars(Step)

\* ------------------------------------------------------------------------
\* Derivation over bounded snapshots
\* ------------------------------------------------------------------------
InitDerive ==
  /\ pc = "snapshot"
  /\ webVitalsLib = TRUE
  /\ browser = "open"
  /\ \E f \in HelperFcpValues, l \in HelperLcpValues, r \in HelperRest :
       webVitals = [LCP |-> l, FCP |-> f, CLS |-> r.CLS, TTFB |-> r.TTFB]
  /\ longTasks \in SeqsUpTo(StoredTasks, MaxTasks)
  /\ lcpEntries \in SeqsUpTo(LcpEntryValues, MaxCands)
  /\ lcpCandidates = MapCandidates(lcpEntries)
  /\ paint \in {<<>>, <<PaintFp, PaintFcp>>}
  /\ paintEntries = paint
  /\ nav \in NavValues
  /\ derived = NoDerived
  /\ metrics = NoMetrics
  /\ elapsed = maxWaitTime
  /\ lastLCP = NULL
  /\ stableLCPCount = 0
  /\ readings = [i \in 1..(maxWaitTime \div checkInterval) |-> NULL]
  /\ loopExit = "ceiling"
  /\ clickFailed = FALSE
  /\ events = 0
  /\ result = "none"
  /\ observers = AllObservers
  /\ grades = NoGrades
  /\ mobile = FALSE
  /\ tab = DesktopTab
  /\ openBrowsers = 1
  /\ NoCaller

NextDerive == Snapshot

SpecDerive == InitDerive /\ [][NextDerive]_vars

\* ------------------------------------------------------------------------
\* Grading over bounded snapshots: the store is drawn with values on and just
\* above each threshold, then derived, returned and printed
\* ------------------------------------------------------------------------
\* a time of n ms and the next representable time after it
Around(n) == {Num(Ms(n)), Num(Ms(n) + 1)}

\* FCP on the fcp thresholds, where fcp * 1.8 meets the si thresholds, and on
\* the tti thresholds
GradeFcpValues ==
  {NULL} \cup Around(1800) \cup Around(3000) \cup Around(1889) \cup Around(3222)
         \cup Around(3800) \cup Around(7300)
GradeLcpValues == {NULL} \cup Around(2500) \cup Around(4000)
GradeTtfbValues == {NULL} \cup Around(800) \cup Around(1800)
GradeClsValues == {NULL, Num(0), Num(100), Num(101), Num(250), Num(251)}

\* no long task, or one long task late in the load
GradeTasks ==
  {<<>>} \cup { <<Task(Ms(8000), d)>> : d \in {Ms(250), Ms(250) + 1, Ms(650), Ms(650) + 1} }

InitGrade ==
  /\ pc = "snapshot"
  /\ webVitalsLib = TRUE
  /\ browser = "open"
  /\ \E f \in GradeFcpValues, l \in GradeLcpValues, t \in GradeTtfbValues,
        c \in GradeClsValues :
       webVitals = [LCP |-> l, FCP |-> f, CLS |-> c, TTFB |-> t]
  /\ longTasks \in GradeTasks
  /\ lcpEntries = <<>>
  /\ lcpCandidates = <<>>
  /\ paint = <<>>
  /\ paintEntries = <<>>
  /\ nav = Num(Ms(20000))
  /\ derived = NoDerived
  /\ metrics = NoMetrics
  /\ elapsed = maxWaitTime
  /\ lastLCP = NULL
  /\ stableLCPCount = 0
  /\ readings = [i \in 1..(maxWaitTime \div checkInterval) |-> NULL]
  /\ loopExit = "ceiling"
  /\ clickFailed = FALSE
  /\ events = 0
  /\ result = "none"
  /\ observers = AllObservers
  /\ grades = NoGrades
  /\ mobile = FALSE
  /\ tab = DesktopTab
  /\ openBrowsers = 1
  /\ NoCaller

NextGrade == Snapshot \/ Close \/ Return \/ printSingle

SpecGrade == InitGrade /\ [][NextGrade]_vars

\* ------------------------------------------------------------------------
\* A run of the program: main() over one or two urls, with or without --mobile
\* ------------------------------------------------------------------------
Argvs ==
  { [urls |-> u, mobile |-> m] : u \in {<<"a.test">>, <<"a.test", "b.test">>},
                                 m \in BOOLEAN }

InitRun ==
  /\ pc = "idle"
  /\ webVitalsLib = FALSE
  /\ browser = "none"
  /\ webVitals = NoVitals
  /\ longTasks = <<>>
  /\ lcpCandidates = <<>>
  /\ paintEntries = <<>>
  /\ nav = NULL
  /\ paint = <<>>
  /\ lcpEntries = <<>>
  /\ derived = NoDerived
  /\ metrics = NoMetrics
  /\ elapsed = 0
  /\ lastLCP = NULL
  /\ stableLCPCount = 0
  /\ readings = <<>>
  /\ loopExit = "none"
  /\ clickFailed = FALSE
  /\ events = 0
  /\ result = "none"
  /\ observers = NoObservers
  /\ grades = NoGrades
  /\ mobile = FALSE
  /\ tab = NoTab
  /\ openBrowsers = 0
  /\ mainPc = "loop"
  /\ argv \in Argvs
  /\ urlIx = 0
  /\ attempt = 0
  /\ desktop = NULL
  /\ mobileData = NULL
  /\ results = <<>>
  /\ output = NoOutput

\* the steps of a session, for either profile
SessionStep == MeasureStep \/ MobileStep

\* the steps of main() and measureWithRetry()
CallerStep ==
  \/ MainDesktop \/ MainMobile \/ MainAborts
  \/ WrapperReturns \/ WrapperThrows \/ RetryWait \/ RetryMeasure
  \/ MainPush \/ mainPrintSingle \/ printCompare

\* the pages stay silent: no helper report, no observer callback
NextRun == SessionStep \/ CallerStep

SpecRun == InitRun /\ [][NextRun]_vars

\* ------------------------------------------------------------------------
\* Compare mode over bounded results: main() has measured two urls
\* ------------------------------------------------------------------------
\* bundles as sessions return them: a fast page, a slower page whose TTFB was
\* not reported, and a page whose FCP was never observed
BundleFast ==
  [lcp |-> Num(1000), fcp |-> Num(500), cls |-> Num(0), ttfb |-> Num(40),
   tbt |-> Num(0), tti |-> Num(500), si |-> Num(800),
   source |-> "Local (Puppeteer)"]
BundleSlow ==
  [lcp |-> Num(3000), fcp |-> Num(500), cls |-> Num(120), ttfb |-> NULL,
   tbt |-> Num(Fixed(10)), tti |-> Num(1060), si |-> Num(2000),
   source |-> "Local (Puppeteer)"]
BundleBlank ==
  [lcp |-> NULL, fcp |-> NULL, cls |-> Num(0), ttfb |-> Num(810),
   tbt |-> Num(0), tti |-> NULL, si |-> NULL,
   source |-> "Local (Puppeteer)"]

CompareData == {NULL, Num(BundleFast), Num(BundleSlow), Num(BundleBlank)}

\* the two url arguments: different strings, or the same string twice
UrlPairs == {<<"a.test", "b.test">>, <<"a.test", "a.test">>}

InitCompare ==
  /\ pc = "idle"
  /\ webVitalsLib = TRUE
  /\ browser = "closed"
  /\ webVitals = NoVitals
  /\ longTasks = <<>>
  /\ lcpCandidates = <<>>
  /\ paintEntries = <<>>
  /\ nav = NULL
  /\ paint = <<>>
  /\ lcpEntries = <<>>
  /\ derived = NoDerived
  /\ metrics = NoMetrics
  /\ elapsed = 0
  /\ lastLCP = NULL
  /\ stableLCPCount = 0
  /\ readings = <<>>
  /\ loopExit = "none"
  /\ clickFailed = FALSE
  /\ events = 0
  /\ result = "none"
  /\ observers = NoObservers
  /\ grades = NoGrades
  /\ tab = NoTab
  /\ openBrowsers = 0
  /\ mainPc = "print"
  /\ \E u \in UrlPairs, m \in BOOLEAN :
       /\ argv = [urls |-> u, mobile |-> m]
       /\ mobile = m
       /\ \E dA \in CompareData, dB \in CompareData,
             mA \in (IF m THEN CompareData ELSE {NULL}),
             mB \in (IF m THEN CompareData ELSE {NULL}) :
            /\ results = << [url |-> u[1], mobile |-> mA, desktop |-> dA],
                            [url |-> u[2], mobile |-> mB, desktop |-> dB] >>
            /\ desktop = dB
            /\ mobileData = mB
  /\ urlIx = 2
  /\ attempt = maxAttempts
  /\ output = NoOutput

NextCompare == printCompare

SpecCompare == InitCompare /\ [][NextCompare]_vars

\* ------------------------------------------------------------------------
\* One url, desktop only, with page events: a single call of measureWithRetry
\* ------------------------------------------------------------------------
InitRetry == InitRun /\ argv = [urls |-> <<"a.test">>, mobile |-> FALSE]

RetryStep ==
  \/ MainDesktop \/ MainAborts
  \/ WrapperReturns \/ WrapperThrows \/ RetryWait \/ RetryMeasure
  \/ MainPush \/ mainPrintSingle

NextRetry == MeasureStep \/ RetryStep \/ PageEvent

SpecRetry == InitRetry /\ [][NextRetry]_vars

\* ------------------------------------------------------------------------
\* Vocabulary of the properties
\* ------------------------------------------------------------------------
Derived == pc = "close"

Max0(x) == IF x > 0 THEN x ELSE 0

RECURSIVE SumOf(_, _)
\* sum of f[i] over the finite set I
SumOf(f, I) ==
  IF I = {} THEN 0
  ELSE LET i == CHOOSE j \in I : TRUE IN f[i] + SumOf(f, I \ {i})

\* indices of the long tasks whose start lies in [lo, hi)
WindowTasks(lo, hi) ==
  { i \in 1..Len(longTasks) : lo <= longTasks[i].startTime /\ longTasks[i].startTime < hi }

\* sum of max(0, duration - 50ms) over those tasks
WindowBlocking(lo, hi) ==
  SumOf([i \in 1..Len(longTasks) |-> Max0(longTasks[i].duration - LongTaskThreshold)],
        WindowTasks(lo, hi))

\* the sequence without its i-th element
RemoveAt(seq, i) == SubSeq(seq, 1, i - 1) \o SubSeq(seq, i + 1, Len(seq))

\* C1: with a non-null FCP, the derived Total Blocking Time is the sum of
\* max(0, duration - 50ms) over exactly the long tasks that start in
\* [FCP, boundary); it is never negative, and a task that starts before FCP or
\* at/after the boundary can be taken out of the store without changing it.
C1_TbtIsWindowSum ==
  (Derived /\ derived.fcp # NULL) =>
    LET fcp == Val(derived.fcp)
        boundary == TbtBoundary(nav, derived.finalLCP)
    IN  /\ derived.totalBlockingTime = WindowBlocking(fcp, boundary)
        /\ derived.totalBlockingTime >= 0
        /\ \A i \in (1..Len(longTasks)) \ WindowTasks(fcp, boundary) :
             GetTotalBlockingTime(RemoveAt(longTasks, i), derived.fcp, nav,
                                  derived.finalLCP) = derived.totalBlockingTime

\* a derivation with a task starting exactly at FCP, counted, and a task at or
\* after the boundary, not counted
C1_Witness ==
  /\ Derived /\ derived.fcp # NULL
  /\ LET fcp == Val(derived.fcp)
         boundary == TbtBoundary(nav, derived.finalLCP)
     IN  /\ \E i \in WindowTasks(fcp, boundary) : longTasks[i].startTime = fcp
         /\ \E i \in 1..Len(longTasks) : longTasks[i].startTime >= boundary
         /\ derived.totalBlockingTime > 0

\* C2: when FCP is null at snapshot time the bundle's tbt field is null.
C2_TbtNullWithoutFcp ==
  (Derived /\ derived.fcp = NULL) => metrics.tbt = NULL

\* the millisecond threshold table for TBT
TbtBand(b) ==
  IF b <= 200 THEN "good" ELSE IF b > 600 THEN "poor" ELSE "needs-improvement"

\* C3: the grade of the bundle's tbt field is the band of its value in
\* milliseconds: good iff <= 200, poor iff > 600, needs-improvement otherwise.
C3_TbtGradedInMs ==
  Derived => indicator("tbt", metrics.tbt) = TbtBand(Val(metrics.tbt) \div SecDivisor)

\* ------------------------------------------------------------------------
\* Time to Interactive
\* ------------------------------------------------------------------------
Perms(n) == { f \in [1..n -> 1..n] : \A i, j \in 1..n : f[i] = f[j] => i = j }

\* the long tasks that start at or after fcp, as indices into longTasks
FromFcp(fcp) == { i \in 1..Len(longTasks) : longTasks[i].startTime >= fcp }

\* those indices by ascending start time, equal starts in arrival order
Ascending(fcp) ==
  LET I == FromFcp(fcp)
      n == Cardinality(I)
  IN  CHOOSE o \in [1..n -> I] :
        /\ \A a, b \in 1..n : o[a] = o[b] => a = b
        /\ \A a, b \in 1..n : a < b =>
             \/ longTasks[o[a]].startTime < longTasks[o[b]].startTime
             \/ /\ longTasks[o[a]].startTime = longTasks[o[b]].startTime
                /\ o[a] < o[b]

EndOf(task) == task.startTime + task.duration

\* lastTaskEnd before the k-th task of the walk
LastTaskEndBefore(o, k, fcp) == IF k = 1 THEN fcp ELSE EndOf(longTasks[o[k - 1]])

\* the positions of the walk at which the gap before the task is >= 5000ms
GapsAt(o, fcp) ==
  { k \in DOMAIN o :
      longTasks[o[k]].startTime - LastTaskEndBefore(o, k, fcp) >= quietWindow }

\* the result of the walk: lastTaskEnd at the first gap, else after the last task
WalkResult(fcp) ==
  LET o == Ascending(fcp)
      n == Len(o)
      gaps == GapsAt(o, fcp)
      stop == IF gaps = {} THEN n + 1 ELSE CHOOSE k \in gaps : \A g \in gaps : k <= g
  IN  LastTaskEndBefore(o, stop, fcp)

\* the store's long tasks in the arrival order f
Rearranged(f) == [i \in 1..Len(longTasks) |-> longTasks[f[i]]]

\* f keeps the arrival order of long tasks that have the same start time
KeepsTies(f) ==
  \A i, j \in 1..Len(longTasks) :
    (i < j /\ longTasks[f[i]].startTime = longTasks[f[j]].startTime) => f[i] < f[j]

NoGap(fcp) == GapsAt(Ascending(fcp), fcp) = {}

QuietFrom(t) ==
  \A i \in 1..Len(longTasks) :
    ~(longTasks[i].startTime < t + quietWindow /\ EndOf(longTasks[i]) > t)

\* the points at which a quiet window can begin: FCP and the ends of tasks
\* (a first quiet point after FCP is the end of a task)
QuietCandidates(fcp) ==
  {fcp} \cup { EndOf(longTasks[i]) : i \in 1..Len(longTasks) }

\* C9: TTI is the first point at or after FCP from which the main thread is
\* quiet for 5000ms: no stored long task runs or starts in [TTI, TTI + 5000ms),
\* and no earlier point at or after FCP has that property.
C9_FirstQuietPoint ==
  (Derived /\ derived.fcp # NULL) =>
    LET fcp == Val(derived.fcp)
        t == Val(derived.tti)
    IN  /\ t >= fcp
        /\ QuietFrom(t)
        /\ \A u \in QuietCandidates(fcp) : (fcp <= u /\ u < t) => ~QuietFrom(u)

\* ------------------------------------------------------------------------
\* Final LCP
\* ------------------------------------------------------------------------
MaxOf(a, b) == IF a >= b THEN a ELSE b

\* the larger of the two when both exist, the one that exists, else null
LargerOf(a, b) ==
  IF a # NULL /\ b # NULL THEN Num(MaxOf(Val(a), Val(b)))
  ELSE IF a # NULL THEN a
  ELSE b

\* start time of the last-arrived entry, null when there is none
LastCandidate(entries) ==
  IF entries = <<>> THEN NULL ELSE Num(entries[Len(entries)].startTime)

Polls == Len(readings)

\* the readings of polls k-1 and k are the same number
Repeats(k) == readings[k] # NULL /\ readings[k] = readings[k - 1]

\* C4 as stated: the loop breaks only at a poll whose non-null reading equals
\* the reading of the poll before it, and every such poll is the one at which
\* it breaks.
C4_BreaksAtFirstRepeat ==
  /\ loopExit = "break" => (Polls >= 2 /\ Repeats(Polls))
  /\ \A k \in 2..Polls : Repeats(k) => (loopExit = "break" /\ k = Polls)

\* C4, amended: the loop breaks only at a poll whose non-null reading equals
\* the readings of the two polls before it, and every such poll is the one at
\* which it breaks; it never breaks on one or two readings.
C4_BreaksAtSecondRepeat ==
  /\ loopExit = "break" => (Polls >= 3 /\ Repeats(Polls) /\ Repeats(Polls - 1))
  /\ \A k \in 3..Polls : (Repeats(k) /\ Repeats(k - 1)) => (loopExit = "break" /\ k = Polls)

\* the readings 1500, 1500, 1500: the loop has broken at the third poll
C4_Witness ==
  /\ loopExit = "break"
  /\ readings = <<Num(Ms(1500)), Num(Ms(1500)), Num(Ms(1500))>>

\* C5: when the loop breaks, the readings of its last two polls are the same
\* non-null number; a loop that read null at every poll ends at the ceiling,
\* after all its polls.
C5_NullNeverStable ==
  /\ loopExit = "break" => (Polls >= 2 /\ Repeats(Polls))
  /\ (loopExit # "none" /\ \A k \in 1..Polls : readings[k] = NULL) =>
       (loopExit = "ceiling" /\ Polls * checkInterval >= maxWaitTime)

\* a page that never reported an LCP: every poll read null, the loop ran out
C5_Witness ==
  /\ loopExit = "ceiling"
  /\ Polls >= 3
  /\ \A k \in 1..Polls : readings[k] = NULL

LoopPhases == {"poll", "scrollMid", "sleep"}

Hundredths(si) == Val(si) * (100 \div SiScale)

C11_SpeedIndexFormula ==
  Derived =>
    LET f == derived.fcp
        l == derived.finalLCP
        s == derived.speedIndex
    IN  /\ (f = NULL) => (s = NULL)
        /\ (f # NULL /\ (l = NULL \/ Val(l) <= Val(f)))
             => (s # NULL /\ Hundredths(s) = Val(f) * 180)
        /\ (f # NULL /\ l # NULL /\ Val(l) > Val(f))
             => (s # NULL /\ Hundredths(s) = Val(f) * 100 + (Val(l) - Val(f)) * 60)
        /\ (f = Num(Ms(1000)) /\ l = Num(Ms(3000))) => (metrics.si = Num(2200))
        /\ (f = Num(Ms(1000)) /\ l = NULL) => (metrics.si = Num(1800))

\* FCP and LCP both at 1000 ms: LCP is known but not greater than FCP
C11_Witness ==
  /\ Derived
  /\ derived.fcp = Num(Ms(1000))
  /\ derived.finalLCP = Num(Ms(1000))
  /\ metrics.si = Num(1800)

\* ------------------------------------------------------------------------
\* C12: the upper end of the TBT window is the load-event-end timestamp when
\* a navigation entry exists and the load event has ended, otherwise the
\* derived LCP, and 10000 ms when that is null too.
\* ------------------------------------------------------------------------
LoadEventEnded == nav # NULL /\ Val(nav) > 0

FallbackBoundary ==
  IF LoadEventEnded THEN Val(nav)
  ELSE IF derived.finalLCP # NULL THEN Val(derived.finalLCP)
  ELSE Ms(10000)

C12_BoundaryFallsBack ==
  (Derived /\ derived.fcp # NULL) =>
    derived.totalBlockingTime = WindowBlocking(Val(derived.fcp), FallbackBoundary)

\* ------------------------------------------------------------------------
\* C13: a field metric (lcp, cls, fcp, ttfb) with thresholds (good, poor) is
\* graded good iff v <= good, needs-improvement iff good < v <= poor and poor
\* iff v > poor, with exactly one band per non-null value; a null value gets
\* no band. For LCP: 2.5 s is good, the next value above it needs improvement,
\* 4.0 s needs improvement, the next value above it is poor.
\* ------------------------------------------------------------------------
Printed == pc = "printed"

FieldMetrics == {"lcp", "cls", "fcp", "ttfb"}

\* the thresholds of the field metrics (seconds; CLS unitless), in thousandths
FieldTable ==
  [ lcp  |-> <<2500, 4000>>, cls |-> <<100, 250>>,
    fcp  |-> <<1800, 3000>>, ttfb |-> <<800, 1800>> ]

Bands == {"good", "needs-improvement", "poor"}

\* g is the band of v under the thresholds (good, poor)
IsBandOf(g, v, good, poor) ==
  /\ g \in Bands
  /\ (g = "good") <=> (v <= good)
  /\ (g = "needs-improvement") <=> (good < v /\ v <= poor)
  /\ (g = "poor") <=> (v > poor)

C13_FieldGrading ==
  Printed =>
    /\ \A k \in FieldMetrics :
         IF metrics[k] = NULL THEN grades[k] = "none"
         ELSE IsBandOf(grades[k], Val(metrics[k]), FieldTable[k][1], FieldTable[k][2])
    /\ (metrics.lcp = Num(2500)) => (grades.lcp = "good")
    /\ (metrics.lcp = Num(2501)) => (grades.lcp = "needs-improvement")
    /\ (metrics.lcp = Num(4000)) => (grades.lcp = "needs-improvement")
    /\ (metrics.lcp = Num(4001)) => (grades.lcp = "poor")

\* LCP just above 4.0 s is poor, TTFB exactly 0.8 s is good, FCP is null
C13_Witness ==
  /\ Printed
  /\ metrics.lcp = Num(4001) /\ grades.lcp = "poor"
  /\ metrics.ttfb = Num(800) /\ grades.ttfb = "good"
  /\ metrics.cls = Num(101) /\ grades.cls = "needs-improvement"
  /\ metrics.fcp = NULL /\ grades.fcp = "none"

\* ------------------------------------------------------------------------
\* C14: Speed Index and TTI are stored in the bundle in seconds and are
\* converted to milliseconds before they are compared: Speed Index is good
\* iff <= 3400 ms and poor iff > 5800 ms, TTI is good iff <= 3800 ms and poor
\* iff > 7300 ms.
\* ------------------------------------------------------------------------
\* the milliseconds a bundle field in seconds stands for
BundleMs(v) == Val(v)

C14_LabGradedInMs ==
  Printed =>
    /\ (derived.speedIndex # NULL) =>
         /\ metrics.si # NULL
         /\ BundleMs(metrics.si) = RoundDiv(Val(derived.speedIndex), SiScale * TicksPerMs)
         /\ (grades.si = "good") <=> (BundleMs(metrics.si) <= 3400)
         /\ (grades.si = "poor") <=> (BundleMs(metrics.si) > 5800)
         /\ grades.si \in Bands
    /\ (derived.tti # NULL) =>
         /\ metrics.tti # NULL
         /\ BundleMs(metrics.tti) = MathRound(Val(derived.tti))
         /\ (grades.tti = "good") <=> (BundleMs(metrics.tti) <= 3800)
         /\ (grades.tti = "poor") <=> (BundleMs(metrics.tti) > 7300)
         /\ grades.tti \in Bands

\* a page with FCP at 3222.5 ms, no LCP and no long task: its speed index,
\* 5.801 s, is poor and its TTI, 3.223 s, is good
C14_Witness ==
  /\ Printed
  /\ metrics.si = Num(5801) /\ grades.si = "poor"
  /\ metrics.tti = Num(3223) /\ grades.tti = "good"

\* ------------------------------------------------------------------------
\* C15: the derivation is a function of the snapshot alone and leaves it as
\* it was: the store and the timeline after the snapshot script are those
\* before it, and deriving again from them gives the bundle just returned.
\* ------------------------------------------------------------------------
DerivedAgain == Bundle(webVitals, Derive(webVitals, longTasks, nav, paint, lcpEntries))

IsPrefix(s, t) == Len(s) <= Len(t) /\ SubSeq(t, 1, Len(s)) = s

ErrorPath == {"closeOnError", "throw", "failed"}

BundleFields == {"lcp", "fcp", "cls", "ttfb", "tbt", "tti", "si", "source"}

C17_NavigationFailureFatal ==
  /\ [][(pc = "goto" /\ pc' = "loading") => nav = NULL]_vars
  /\ [][(pc = "loading") => (pc' \in {"loading", "settle", "closeOnError"})]_vars
  /\ [][(pc \in {"closeOnError", "throw"}) => (pc' \in {"throw", "failed"})]_vars
  /\ [](pc \in ErrorPath => (metrics = NoMetrics /\ result # "bundle"))
  /\ [](pc = "failed" => result = "error")
  /\ [](result = "bundle" =>
          /\ pc \notin ErrorPath
          /\ DOMAIN metrics = BundleFields
          /\ metrics = DerivedAgain)

\* the navigation failed after the page had already reported an LCP: the
\* browser is closed, the caller has the error and there is no bundle
C17_Witness ==
  /\ pc = "failed" /\ result = "error"
  /\ nav # NULL /\ webVitals.LCP # NULL
  /\ browser = "closed"
  /\ metrics = NoMetrics

\* ------------------------------------------------------------------------
\* C18: best-effort failures never fail a session: after a failed click, or
\* with an observer (long-task, paint, LCP) that could not be registered, the
\* session still runs its remaining phases and returns a bundle; the array of
\* an unregistered observer stays empty for the whole session.
\* ------------------------------------------------------------------------
BundleReturned == pc = "done" /\ result = "bundle" /\ metrics = DerivedAgain

SomeObserverFailed == \E o \in DOMAIN observers : ~observers[o]

C18_BestEffortFailures ==
  /\ [](~observers.longtask => longTasks = <<>>)
  /\ [](~observers.paint => paintEntries = <<>>)
  /\ [](~observers.lcp => lcpCandidates = <<>>)
  /\ (pc = "pause1000" /\ clickFailed) ~> BundleReturned
  /\ (pc = "settle" /\ SomeObserverFailed) ~> BundleReturned

\* a bundle returned by a session in which the click failed and the paint
\* observer was not registered, although the page did paint
C18_Witness ==
  /\ BundleReturned
  /\ clickFailed
  /\ ~observers.paint /\ paint # <<>> /\ paintEntries = <<>>
  /\ observers.longtask /\ longTasks # <<>>

\* ------------------------------------------------------------------------
\* C19: the bundle's CLS is never null: when the helper reported no CLS the
\* bundle's CLS is 0, otherwise it is the reported value.
\* ------------------------------------------------------------------------
C19_ClsNeverNull ==
  Derived =>
    /\ metrics.cls # NULL
    /\ (webVitals.CLS = NULL) => (metrics.cls = Num(0))
    /\ (webVitals.CLS # NULL) => (metrics.cls = webVitals.CLS)

\* a bundle for a page whose CLS was never reported, although its FCP was
C19_Witness ==
  /\ Derived
  /\ webVitals.CLS = NULL
  /\ metrics.cls = Num(0)
  /\ metrics.fcp # NULL

\* ------------------------------------------------------------------------
\* C20: in every bundle Speed Index and TTI are null exactly when FCP is
\* null; an observed FCP gives a non-null value for both, also when no long
\* task was recorded and no LCP was observed.
\* ------------------------------------------------------------------------
C20_LabNullIffFcpNull ==
  Derived =>
    /\ (metrics.si = NULL) <=> (metrics.fcp = NULL)
    /\ (metrics.tti = NULL) <=> (metrics.fcp = NULL)
    /\ (metrics.fcp = NULL) <=> (derived.fcp = NULL)

\* FCP observed, no long task stored and no LCP: si and tti are both there
C20_Witness ==
  /\ Derived
  /\ metrics.fcp # NULL
  /\ longTasks = <<>> /\ metrics.lcp = NULL
  /\ metrics.si # NULL /\ metrics.tti # NULL

\* ------------------------------------------------------------------------
\* C21: in every session the collector and the helper library are installed
\* into the page before the navigation is issued; in a mobile session the
\* mobile viewport, the network emulation and the CPU throttling are applied
\* before it as well.
\* ------------------------------------------------------------------------
ReadyToNavigate ==
  /\ tab.collector /\ tab.lib
  /\ tab.viewport = (IF mobile THEN "mobile" ELSE "desktop")
  /\ mobile => (tab.userAgent /\ tab.network /\ tab.cpu)

NavigationIssued == pc = "goto" /\ pc' = "loading"

C21_InstalledBeforeNavigation ==
  /\ [][NavigationIssued => ReadyToNavigate]_vars
  /\ [](PageLive => ReadyToNavigate)

\* a mobile session whose navigation is under way
C21_Witness ==
  /\ pc = "loading" /\ mobile
  /\ nav # NULL
  /\ ReadyToNavigate

\* ------------------------------------------------------------------------
\* C22: a successful session goes through its phases in one fixed order, none
\* skipped or repeated: navigation, settle wait, stabilization polls (a poll
\* that does not exit reads the LCP, scrolls to the midpoint, sleeps), scroll
\* to top, 500 ms pause, click, 1000 ms pause, snapshot, teardown. The
\* snapshot is not taken before the finalize phase is over, and a poll that
\* exits early neither scrolls nor sleeps.
\* ------------------------------------------------------------------------
\* the phase that follows each phase (a failed navigation leaves the order)
PhaseOrder ==
  [ goto      |-> {"loading"},
    loading   |-> {"settle", "closeOnError"},
    settle    |-> {"poll"},
    poll      |-> {"scrollMid", "scrollTop"},
    scrollMid |-> {"sleep"},
    sleep     |-> {"poll", "scrollTop"},
    scrollTop |-> {"pause500"},
    pause500  |-> {"click"},
    click     |-> {"pause1000"},
    pause1000 |-> {"snapshot"},
    snapshot  |-> {"close"},
    close     |-> {"return"},
    return    |-> {"done"} ]

AfterLoop == {"scrollTop", "pause500", "click", "pause1000", "snapshot", "close",
              "return", "done", "printed"}

C22_PhasesInOrder ==
  /\ [][(pc \in DOMAIN PhaseOrder /\ pc' # pc) => (pc' \in PhaseOrder[pc])]_vars
  /\ [][(pc = "poll" /\ pc' = "scrollTop") => (loopExit' = "break" /\ elapsed' = elapsed)]_vars
  /\ [][(pc = "poll" /\ pc' = "scrollMid") => Len(readings') = elapsed \div checkInterval + 1]_vars
  /\ [][(pc = "sleep" /\ pc' # pc) => elapsed' = elapsed + checkInterval]_vars
  /\ [][(pc = "snapshot" /\ pc' = "close") => (metrics = NoMetrics /\ metrics' # NoMetrics)]_vars
  /\ [](pc \in AfterLoop =>
          Len(readings) = elapsed \div checkInterval
                          + (IF loopExit = "break" THEN 1 ELSE 0))

\* a session that left the loop at its third poll and returned its bundle
C22_Witness ==
  /\ pc = "done" /\ result = "bundle"
  /\ loopExit = "break" /\ Len(readings) = 3
  /\ elapsed = 2 * checkInterval

\* ------------------------------------------------------------------------
\* C23: every browser launched by measure() is closed by the time measure()
\* returns a bundle or throws: on success after the snapshot is derived and
\* before the bundle is returned, on a failure after launch before the error
\* reaches the caller; no session leaves its browser open.
\* ------------------------------------------------------------------------
C23_BrowserClosed ==
  /\ [](pc = "done" => (browser = "closed" /\ openBrowsers = 0))
  /\ [](pc = "failed" => (browser \in {"none", "closed"} /\ openBrowsers = 0))
  /\ [](result # "none" => browser # "open")
  /\ [](mainPc \in {"print", "exit"} => openBrowsers = 0)
  /\ [][(browser = "open" /\ browser' # "open") =>
          /\ browser' = "closed"
          /\ result = "none" /\ result' = "none"
          /\ \/ pc = "close" /\ metrics # NoMetrics
             \/ pc = "closeOnError" /\ metrics = NoMetrics]_vars

\* a mobile session whose navigation failed in its second attempt: the error
\* has reached the wrapper and the browser is closed
C23_Witness ==
  /\ pc = "failed" /\ result = "error"
  /\ mobile /\ attempt = 2
  /\ tab.cpu
  /\ browser = "closed" /\ openBrowsers = 0

\* ------------------------------------------------------------------------
\* C24: retrying is done by measureWithRetry only and is bounded: at most 3
\* sessions for one (url, profile); the bundle of the first session that
\* succeeds is returned and no further session is started; every attempt but
\* the first is preceded by the 2000 ms wait; when all 3 sessions have failed
\* the error is thrown to main(), which is left without a bundle.
\* ------------------------------------------------------------------------
InWrapper == mainPc \in {"desktop", "mobile"}

\* the variable main() assigns the wrapper's result to
WrapperData == IF mainPc \in {"desktop", "afterDesktop"} THEN desktop ELSE mobileData

MeasureCalled == pc # "launch" /\ pc' = "launch"

C24_RetryBounded ==
  /\ [](attempt \in 0..maxAttempts)
  /\ [][MeasureCalled =>
          \/ pc = "init" /\ attempt' = 1
          \/ pc = "retryWait" /\ attempt' = attempt /\ attempt > 1]_vars
  /\ [][(attempt' # attempt) =>
          \/ attempt' = 1 /\ pc' = "init"
          \/ attempt' = attempt + 1 /\ pc = "failed" /\ pc' = "retryWait"]_vars
  /\ [][(pc = "done" /\ pc' # pc) =>
          (pc' = "idle" /\ ~InWrapper' /\ WrapperData' = Num(metrics))]_vars
  /\ [][(pc = "failed" /\ pc' # pc) =>
          IF attempt < maxAttempts
          THEN pc' = "retryWait" /\ InWrapper'
          ELSE pc' = "idle" /\ ~InWrapper' /\ WrapperData' = NULL]_vars

\* main() has the bundle of a third attempt
C24_Witness ==
  /\ mainPc = "afterMobile" /\ pc = "idle"
  /\ attempt = maxAttempts
  /\ mobileData = Num(metrics) /\ result = "bundle"

\* ------------------------------------------------------------------------
\* C25: a retried session never resumes a failed one: every attempt launches
\* a new browser, opens a new tab and starts from an empty event store; the
\* browser of a failed attempt is closed before the next attempt starts; the
\* bundle finally returned is derived from the events of the successful
\* attempt only.
\* ------------------------------------------------------------------------
BrowserLaunched == browser # "open" /\ browser' = "open"

EmptyStore ==
  /\ webVitals = NoVitals
  /\ longTasks = <<>> /\ lcpCandidates = <<>> /\ paintEntries = <<>>
  /\ paint = <<>> /\ lcpEntries = <<>>

C25_AttemptsStartFresh ==
  /\ [][MeasureCalled => (browser' = "none" /\ openBrowsers = 0)]_vars
  /\ [][BrowserLaunched => (browser = "none" /\ openBrowsers = 0 /\ pc = "launch")]_vars
  /\ [][(pc = "setup" /\ pc' = "viewport") => tab' = NoTab]_vars
  /\ [][NavigationIssued => (EmptyStore' /\ nav' = Num(0))]_vars
  /\ [](pc = "retryWait" => (openBrowsers = 0 /\ browser # "open"))
  /\ [](result = "bundle" => metrics = DerivedAgain)
  /\ [](desktop # NULL => desktop = Num(DerivedAgain))

\* the second attempt has its browser and is about to navigate, while the
\* model still holds what the page of the failed attempt had reported
C25_Witness ==
  /\ pc = "goto" /\ attempt = 2
  /\ browser = "open" /\ openBrowsers = 1
  /\ ~EmptyStore

\* ------------------------------------------------------------------------
\* C26: in compare mode, in every row where both sites have a value the
\* winner is the site with the strictly lower value and exactly that site's
\* win count grows by one; equal values change no count; a row with a null
\* value has no winner; a profile for which either site has no bundle
\* contributes no rows.
\* ------------------------------------------------------------------------
Compared == output.kind = "compare"

SiteA == results[1]
SiteB == results[2]

\* the rows the claim describes, profile by profile
ClaimRows ==
  (IF SiteA.mobile # NULL /\ SiteB.mobile # NULL
   THEN ProfileRows(SiteA.mobile, SiteB.mobile) ELSE <<>>)
  \o (IF SiteA.desktop # NULL /\ SiteB.desktop # NULL
      THEN ProfileRows(SiteA.desktop, SiteB.desktop) ELSE <<>>)

BothValues(row) == row.va # NULL /\ row.vb # NULL

RowsWonByA == { i \in 1..Len(ClaimRows) :
                  BothValues(ClaimRows[i]) /\ Val(ClaimRows[i].va) < Val(ClaimRows[i].vb) }
RowsWonByB == { i \in 1..Len(ClaimRows) :
                  BothValues(ClaimRows[i]) /\ Val(ClaimRows[i].vb) < Val(ClaimRows[i].va) }

C26_StrictlyLowerWins ==
  Compared =>
    /\ Len(output.winners) = Len(ClaimRows)
    /\ \A i \in 1..Len(ClaimRows) :
         /\ (output.winners[i] = "A") <=> (i \in RowsWonByA)
         /\ (output.winners[i] = "B") <=> (i \in RowsWonByB)
         /\ ~BothValues(ClaimRows[i]) => output.winners[i] = "none"
    /\ output.wins[SiteA.url] = Cardinality(RowsWonByA)
    /\ output.wins[SiteB.url] = Cardinality(RowsWonByB)

\* ------------------------------------------------------------------------
\* C27: in the summary 'X wins N/T metrics', T is the number of rows in which
\* a winner was declared, N <= T, T is at most the number of rows compared,
\* and X is a site holding the maximum win count; for every pair of url
\* arguments, the same string twice included.
\* ------------------------------------------------------------------------
C27_SummaryCounts ==
  Compared =>
    /\ output.total = Cardinality(RowsWonByA \cup RowsWonByB)
    /\ output.leaderWins <= output.total
    /\ output.total <= Len(ClaimRows)
    /\ output.leader \in {SiteA.url, SiteB.url}
    /\ output.leaderWins = output.wins[output.leader]
    /\ \A u \in {SiteA.url, SiteB.url} : output.wins[u] <= output.leaderWins

\* ------------------------------------------------------------------------
\* C28: measurement sessions never overlap: at most one browser is open at
\* any moment, and a session (the next attempt, the mobile profile after the
\* desktop one, the next url) starts only after the previous one has closed
\* its browser.
\* ------------------------------------------------------------------------
MeasurerCreated == mainPc' # mainPc /\ mainPc' \in {"desktop", "mobile"}

C28_SessionsNeverOverlap ==
  /\ [](openBrowsers \in {0, 1})
  /\ []((openBrowsers = 1) <=> (browser = "open"))
  /\ [][(openBrowsers' > openBrowsers) => (openBrowsers = 0 /\ pc = "launch")]_vars
  /\ [][MeasurerCreated => (openBrowsers = 0 /\ browser # "open")]_vars
  /\ [][MeasureCalled => (openBrowsers = 0 /\ browser # "open")]_vars

\* the mobile session of the second url is in its second attempt, after the
\* sessions of the first url and the desktop session of the second
C28_Witness ==
  /\ mainPc = "mobile" /\ urlIx = 2 /\ attempt = 2
  /\ Len(results) = 1 /\ desktop # NULL
  /\ browser = "open" /\ openBrowsers = 1

\* ------------------------------------------------------------------------
\* C29: for every store with a non-null FCP the derived TTI is at least FCP,
\* and it is FCP itself or the end (start + duration) of a stored long task
\* that starts at or after FCP; the tasks that start before FCP never
\* influence it: the same store without them has the same TTI.
\* ------------------------------------------------------------------------
StartsFromFcp(t) == t.startTime >= Val(derived.fcp)

TaskEnd(t) == t.startTime + t.duration

LastSessionExhausted == attempt = maxAttempts /\ result = "error"

C30_FailedOnlyAfterAttempts ==
  output.kind = "single" =>
    /\ output.mobile.text = "Measurement failed" =>
         (argv.mobile /\ mobile /\ LastSessionExhausted)
    /\ (output.desktop.text = "Measurement failed" /\ ~argv.mobile) =>
         (~mobile /\ LastSessionExhausted)

====
